---- MODULE Spec2Model ----
(***************************************************************************)
(* Model of the Notion comment sync pipeline: NotionCommentSync.sync()     *)
(* (main.js), the batch writer (database-writer.js), the status update,    *)
(* and the two task-guard workflows (workflow-manager.js) with the         *)
(* ActionTaskCreator queries they use.  The Notion stores (reference       *)
(* database, target database, action database) are the shared state; every *)
(* awaited call of sync() is one step of the run.                          *)
(***************************************************************************)
EXTENDS Integers, Sequences, FiniteSets, TLC

\* ---------------------------------------------------------------- bounds
MaxRuns == 2       \* runs of sync() in one behaviour
MaxFaults == 1     \* failing external calls in one behaviour
MaxHuman == 1      \* actions of the users in one behaviour

\* ------------------------------------------------------ program constants
PageSize == 100    \* page_size of the existing-id query

\* ------------------------------------------------------------- universe
\* Source documents (notes of the reference database).
Notes == {"n1", "n2"}
\* Discussion threads (one discussion_id each) and the note they sit in.
Threads == {"t1", "t2", "t3"}
NoteOf(t) == IF t = "t3" THEN "n2" ELSE "n1"
\* The order in which a note's threads are met while its blocks are read.
ThreadOrder == <<"t1", "t2", "t3">>
\* WorkItem categories: the title markers of the two kinds of task.
RefCat == "Reference"    \* title contains 'Reference处理需求'
CardCat == "Card"        \* title contains '卡片处理需求'
Cats == {RefCat, CardCat}

Unprocessed == "Unprocessed"   \* 自动化 = '未执行'
Processed == "Processed"       \* 自动化 = '已执行'
NotStarted == "NotStarted"     \* Status = '未开始'
InProgress == "InProgress"     \* Status = '进行中'
Done == "Done"                 \* Status = '完成'

VARIABLES
  noteStatus,     \* reference database: note -> 自动化 status
  live,           \* threads whose annotations exist and carry a valid prefix
  target,         \* target database: thread -> number of records with its DiscussionID
  foreign,        \* target database: number of records of no thread above
  unclassified,   \* thread -> number of its records whose '它在解决什么问题？' is empty
  items,          \* action database: sequence of WorkItems, oldest first
  pc,             \* position of sync()
  pendingNotes,   \* sync(): result of getUnexecutedNotes
  allDiscussions, \* sync(): result of processMultipleNotes
  newDiscussions, \* sync(): threads left after dedup
  idx,            \* loop index of the current loop
  results,        \* writeMultipleDiscussions: results[]
  wf,             \* category of the workflow being executed
  wfNotes,        \* workflow: size of the backlog it read
  wfTask,         \* workflow: unfinishedTask (0 = null, else index in items)
  wfResult,       \* sync(): referenceWorkflowResult / cardWorkflowResult
  result,         \* value returned by the last sync()
  prevResult,     \* value returned by the sync() of the run before
  exitKind,       \* which return statement ended the last run
  exitCode,       \* exit status of the last process (-1 while none has ended)
  runs,           \* number of runs started
  faults,         \* number of failed external calls so far
  human,          \* number of user actions so far
  quietRuns,      \* runs started since the last user action (max 2)
  createdRun,     \* threads for which pages.create succeeded in this run
  flippedRun,     \* notes set to Processed in this run
  queriedRun,     \* categories whose unresolved-task query was issued in this run
  itemsRun,       \* categories -> WorkItems created in this run
  mails,          \* notifications handed to the mailer in this run
  lastEvt,        \* last write-loop event of this run
  textPc,         \* position of the text pipeline of one discussion
  fetched,        \* comments of one discussion_id, in fetch order
  discussion,     \* what filterValidDiscussions made of them
  grouped,        \* what groupCommentsByType made of the discussion's comments
  children,       \* blocks generatePageContent made of the discussion
  walkPc,         \* position of getPageBlocksWithComments on one document
  doc,            \* the document: its block tree, paging, failing requests, comments
  allBlocks,      \* result of getAllBlocksRecursively(page)
  blocksWithComments, \* result of getPageBlocksWithComments
  validDiscussions,   \* result of fetchAndGroupComments
  taskPc,         \* position of the WorkItem body builder
  backlog,        \* the backlog handed to the builder
  taskContent     \* the content blocks it returned

storeVars == <<noteStatus, live, target, foreign, unclassified, items>>
runVars == <<pc, pendingNotes, allDiscussions, newDiscussions, idx, results,
             wf, wfNotes, wfTask, wfResult, result, prevResult, exitKind, exitCode>>
ghostVars == <<runs, faults, human, quietRuns, createdRun, flippedRun, queriedRun,
               itemsRun, mails, lastEvt>>
textVars == <<textPc, fetched, discussion, grouped, children>>
walkVars == <<walkPc, doc, allBlocks, blocksWithComments, validDiscussions>>
taskVars == <<taskPc, backlog, taskContent>>
sideVars == <<textVars, walkVars, taskVars>>
vars == <<storeVars, runVars, ghostVars, sideVars>>

\* ------------------------------------------------------------- helpers
RECURSIVE SumOver(_, _)
SumOver(f, S) ==
  IF S = {} THEN 0
  ELSE LET x == CHOOSE y \in S : TRUE IN f[x] + SumOver(f, S \ {x})

Min(a, b) == IF a < b THEN a ELSE b

\* All orders in which a query without sort can return the set S.
Orders(S) ==
  {s \in [1..Cardinality(S) -> S] : \A i, j \in 1..Cardinality(S) : s[i] = s[j] => i = j}

Range(s) == {s[i] : i \in 1..Len(s)}

NoResult == [success |-> FALSE, processed |-> -1, written |-> -1, errors |-> -1, error |-> "none"]
NoWfResult == [success |-> FALSE, backlog |-> -1, actionTaskCreated |-> FALSE,
               emailSent |-> FALSE, unfinishedTask |-> 0, error |-> "none"]

CanFail == faults < MaxFaults

\* ------------------------------------------------------------- Init
SyncInit ==
  /\ noteStatus = [n \in Notes |-> Unprocessed]
  /\ live \in {{"t1", "t2"}, Threads}
  /\ target = [t \in Threads |-> 0]
  /\ foreign \in {0, PageSize}
  /\ unclassified = [t \in Threads |-> 0]
  /\ items = <<>>
  /\ pc = "idle"
  /\ pendingNotes = <<>>
  /\ allDiscussions = <<>>
  /\ newDiscussions = <<>>
  /\ idx = 0
  /\ results = <<>>
  /\ wf = RefCat
  /\ wfNotes = 0
  /\ wfTask = 0
  /\ wfResult = [c \in Cats |-> NoWfResult]
  /\ result = NoResult
  /\ prevResult = NoResult
  /\ exitKind = "none"
  /\ exitCode = -1
  /\ runs = 0
  /\ faults = 0
  /\ human = 0
  /\ quietRuns = 0
  /\ createdRun = {}
  /\ flippedRun = {}
  /\ queriedRun = {}
  /\ itemsRun = [c \in Cats |-> 0]
  /\ mails = {}
  /\ lastEvt = "none"
\* no discussion is being looked at
TextOff ==
  /\ textPc = "off"
  /\ fetched = <<>>
  /\ discussion = [valid |-> FALSE, title |-> <<>>, comments |-> <<>>]
  /\ grouped = [k \in {"Q", "A", "arrow", "other"} |-> <<>>]
  /\ children = <<>>

\* no document is being walked
WalkOff ==
  /\ walkPc = "off"
  /\ doc = [n |-> 0, parent |-> <<>>, pageLen |-> 1, failList |-> {}, failPage |-> 1,
            commented |-> {}, failComments |-> {}]
  /\ allBlocks = <<>>
  /\ blocksWithComments = <<>>
  /\ validDiscussions = <<>>

\* no WorkItem body is being built
TaskOff ==
  /\ taskPc = "off"
  /\ backlog = [cat |-> RefCat, n |-> 0, noUrl |-> {}]
  /\ taskContent = <<>>

Init == SyncInit /\ TextOff /\ WalkOff /\ TaskOff


\* ------------------------------------------------- external actors
\* A user action: counted, and only while the budget lasts.
UserActs ==
  /\ human < MaxHuman
  /\ human' = human + 1
  /\ quietRuns' = 0
humanGhost == <<runs, faults, createdRun, flippedRun, queriedRun, itemsRun, mails, lastEvt>>

\* A user adds a prefixed comment thread to a note.
AddAnnotation(t) ==
  /\ pc = "idle"
  /\ t \notin live
  /\ live' = live \cup {t}
  /\ UserActs
  /\ UNCHANGED <<noteStatus, target, foreign, unclassified, items, runVars,
                 runs, faults, createdRun, flippedRun, queriedRun, itemsRun, mails, lastEvt>>
  /\ UNCHANGED sideVars


\* A user puts a note back to '未执行' to have it synced again.
ResetNote(n) ==
  /\ pc = "idle"
  /\ noteStatus[n] = Processed
  /\ noteStatus' = [noteStatus EXCEPT ![n] = Unprocessed]
  /\ UserActs
  /\ UNCHANGED humanGhost
  /\ UNCHANGED <<live, target, foreign, unclassified, items, runVars>>
  /\ UNCHANGED sideVars


\* A user fills in '它在解决什么问题？' on the records of a thread.
ClassifyCard(t) ==
  /\ pc = "idle"
  /\ unclassified[t] > 0
  /\ unclassified' = [unclassified EXCEPT ![t] = 0]
  /\ UserActs
  /\ UNCHANGED humanGhost
  /\ UNCHANGED <<noteStatus, live, target, foreign, items, runVars>>
  /\ UNCHANGED sideVars


\* The action database is read by the guard query only and WorkItems are only
\* appended, so a status change commutes with every other step of a run: it is
\* enough to let the user act between runs.
HumanPoints == {"idle"}

\* A user starts working on a WorkItem.
StartWork(i) ==
  /\ pc \in HumanPoints
  /\ i \in 1..Len(items)
  /\ items[i].status = NotStarted
  /\ items' = [items EXCEPT ![i].status = InProgress]
  /\ UserActs
  /\ UNCHANGED humanGhost
  /\ UNCHANGED <<noteStatus, live, target, foreign, unclassified, runVars>>
  /\ UNCHANGED sideVars


\* A user marks a WorkItem '完成'.
MarkDone(i) ==
  /\ pc \in HumanPoints
  /\ i \in 1..Len(items)
  /\ items[i].status # Done
  /\ items' = [items EXCEPT ![i].status = Done]
  /\ UserActs
  /\ UNCHANGED humanGhost
  /\ UNCHANGED <<noteStatus, live, target, foreign, unclassified, runVars>>
  /\ UNCHANGED sideVars


\* ------------------------------------------------- sync(): steps 1-5
\* a return after which the workflows are still run
ReturnThenWorkflows(r, kind) ==
  /\ result' = r
  /\ exitKind' = kind
  /\ pc' = IF kind \in {"noPending", "noValid", "noNew"} THEN "wfBacklog" ELSE "done"
\* A return statement of sync(): the run ends with value r.
Return(r, kind) ==
  /\ result' = r
  /\ exitKind' = kind
  /\ pc' = "done"

\* The catch block of sync(): { success: false, error, duration }.
FatalResult(err) ==
  [success |-> FALSE, processed |-> -1, written |-> -1, errors |-> -1, error |-> err]

\* The three early returns and the final return of sync().
EarlyResult(n) ==
  [success |-> TRUE, processed |-> n, written |-> 0, errors |-> 0, error |-> "none"]

NoPendingResult == EarlyResult(0)
NoValidResult == EarlyResult(0)
NoNewResultZero(all) == EarlyResult(0)
NoNewResult(all) == EarlyResult(Len(all))

\* A failing external call: counted, and only while the budget lasts.
Fails ==
  /\ CanFail
  /\ faults' = faults + 1

\* main(): the exit status.  The catch of main() is reached only when sync()
\* or the constructor throws; a result with success false is printed and the
\* process ends normally.
ExitOnThrow == 1
ExitStatus(r) == 0

\* main() starts: new NotionCommentSync(), whose NotionClient constructor throws
\* when the token or a database id is missing, then sync().
StartSync ==
  /\ pc = "idle"
  /\ runs < MaxRuns
  /\ runs' = runs + 1
  /\ quietRuns' = Min(quietRuns + 1, 2)
  /\ \/ /\ pc' = "validate"
        /\ exitKind' = "running"
        /\ exitCode' = -1
        /\ UNCHANGED <<prevResult, faults>>
     \/ /\ Fails
        /\ pc' = pc
        /\ exitKind' = "none"
        /\ exitCode' = ExitOnThrow
        /\ prevResult' = NoResult
  /\ UNCHANGED <<storeVars, pendingNotes, allDiscussions, newDiscussions, idx, results,
                 wf, wfNotes, wfTask, wfResult, result,
                 human, createdRun, flippedRun, queriedRun, itemsRun, mails, lastEvt>>
  /\ UNCHANGED sideVars


\* main(): prints the summary of the result and the process ends; the next
\* run is a new process that knows nothing of this one.
Main ==
  /\ pc = "done"
  /\ pc' = "idle"
  /\ prevResult' = result
  /\ exitCode' = ExitStatus(result)
  /\ result' = NoResult
  /\ exitKind' = "none"
  /\ pendingNotes' = <<>>
  /\ allDiscussions' = <<>>
  /\ newDiscussions' = <<>>
  /\ idx' = 0
  /\ results' = <<>>
  /\ wf' = RefCat
  /\ wfNotes' = 0
  /\ wfTask' = 0
  /\ wfResult' = [c \in Cats |-> NoWfResult]
  /\ createdRun' = {}
  /\ flippedRun' = {}
  /\ queriedRun' = {}
  /\ itemsRun' = [c \in Cats |-> 0]
  /\ mails' = {}
  /\ lastEvt' = "none"
  /\ UNCHANGED <<storeVars, runs, faults, human, quietRuns>>
  /\ UNCHANGED sideVars


\* validateDatabaseStructure throws on a missing or mistyped property (and
\* rethrows a failed retrieve); the catch of sync() returns the failure.
SchemaFailureIgnored ==
  /\ pc' = "stats1"
  /\ UNCHANGED <<result, exitKind>>
SchemaFailure == Return(FatalResult("schema"), "fatal")

\* Step 1: DatabaseWriter.validateDatabaseStructure.
ValidateDatabaseStructure ==
  /\ pc = "validate"
  /\ \/ /\ pc' = "stats1"
        /\ UNCHANGED <<result, exitKind, faults>>
     \/ /\ Fails
        /\ SchemaFailure
  /\ UNCHANGED <<storeVars, pendingNotes, allDiscussions, newDiscussions, idx, results,
                 wf, wfNotes, wfTask, wfResult, prevResult, exitCode,
                 runs, human, quietRuns, createdRun, flippedRun, queriedRun, itemsRun, mails, lastEvt>>
  /\ UNCHANGED sideVars


\* Step 2: NotionClient.getDatabaseStats (beforeStats).
GetDatabaseStatsBefore ==
  /\ pc = "stats1"
  /\ \/ /\ pc' = "notes"
        /\ UNCHANGED <<result, exitKind, faults>>
     \/ /\ Fails
        /\ Return(FatalResult("stats"), "fatal")
  /\ UNCHANGED <<storeVars, pendingNotes, allDiscussions, newDiscussions, idx, results,
                 wf, wfNotes, wfTask, wfResult, prevResult, exitCode,
                 runs, human, quietRuns, createdRun, flippedRun, queriedRun, itemsRun, mails, lastEvt>>
  /\ UNCHANGED sideVars


\* The notes the reference database returns for 自动化 = '未执行'.
UnexecutedNotes == {n \in Notes : noteStatus[n] = Unprocessed}

\* Step 3: NotionClient.getUnexecutedNotes and the first early return.
GetUnexecutedNotes ==
  /\ pc = "notes"
  /\ \/ /\ \E order \in Orders(UnexecutedNotes) :
             /\ pendingNotes' = order
             /\ IF Len(order) = 0
                  THEN /\ Return(NoPendingResult, "noPending")
                       /\ idx' = idx
                  ELSE /\ pc' = "fetch"
                       /\ idx' = 1
                       /\ UNCHANGED <<result, exitKind>>
        /\ UNCHANGED faults
     \/ /\ Fails
        /\ Return(FatalResult("notes"), "fatal")
        /\ UNCHANGED <<pendingNotes, idx>>
  /\ UNCHANGED <<storeVars, allDiscussions, newDiscussions, results,
                 wf, wfNotes, wfTask, wfResult, prevResult, exitCode,
                 runs, human, quietRuns, createdRun, flippedRun, queriedRun, itemsRun, mails, lastEvt>>
  /\ UNCHANGED sideVars


\* CommentFetcher.fetchAndGroupComments(note): the valid threads of the note,
\* in the order met, without those whose blocks or comments could not be read.
FetchAndGroupComments(n, lost) ==
  SelectSeq(ThreadOrder, LAMBDA t : t \in live /\ NoteOf(t) = n /\ t \notin lost)

\* Step 4: one iteration of CommentFetcher.processMultipleNotes, and after the
\* last one the second early return.
ProcessNote ==
  /\ pc = "fetch"
  /\ \E lost \in SUBSET {t \in live : NoteOf(t) = pendingNotes[idx]} :
       /\ IF lost = {} THEN UNCHANGED faults ELSE Fails
       /\ allDiscussions' = allDiscussions \o FetchAndGroupComments(pendingNotes[idx], lost)
  /\ IF idx < Len(pendingNotes)
       THEN /\ idx' = idx + 1
            /\ UNCHANGED <<pc, result, exitKind>>
       ELSE /\ idx' = idx
            /\ IF Len(allDiscussions') = 0
                 THEN Return(NoValidResult, "noValid")
                 ELSE /\ pc' = "dedup"
                      /\ UNCHANGED <<result, exitKind>>
  /\ UNCHANGED <<storeVars, pendingNotes, newDiscussions, results,
                 wf, wfNotes, wfTask, wfResult, prevResult, exitCode,
                 runs, human, quietRuns, createdRun, flippedRun, queriedRun, itemsRun, mails, lastEvt>>
  /\ UNCHANGED sideVars


\* databases.query({ page_size: 100 }) on the target database, has_more not
\* followed: any choice of at most PageSize of its records (no sort is given).
TotalRecords == foreign + SumOver(target, Threads)
QueryTargetPage ==
  {r \in [Threads -> 0..MaxRuns] :
     /\ \A t \in Threads : r[t] <= target[t]
     /\ LET n == SumOver(r, Threads)
        IN /\ n <= Min(TotalRecords, PageSize)
           /\ Min(TotalRecords, PageSize) - n <= foreign}

\* NotionClient.getExistingDiscussionIds: the DiscussionIDs of one page.
GetExistingDiscussionIds(page) == {t \in Threads : page[t] > 0}

\* main.js: allDiscussions.filter(d => !existingDiscussionIds.includes(d.discussionId))
FilterNew(all, existing) == SelectSeq(all, LAMBDA t : t \notin existing)

\* Step 5: dedup and the third early return.
Dedup ==
  /\ pc = "dedup"
  /\ \/ /\ \E page \in QueryTargetPage :
             newDiscussions' = FilterNew(allDiscussions, GetExistingDiscussionIds(page))
        /\ IF Len(newDiscussions') = 0
             THEN Return(NoNewResult(allDiscussions), "noNew")
             ELSE /\ pc' = "process"
                  /\ UNCHANGED <<result, exitKind>>
        /\ UNCHANGED faults
     \/ /\ Fails
        /\ Return(FatalResult("existing"), "fatal")
        /\ UNCHANGED newDiscussions
  /\ UNCHANGED <<storeVars, pendingNotes, allDiscussions, idx, results,
                 wf, wfNotes, wfTask, wfResult, prevResult, exitCode,
                 runs, human, quietRuns, createdRun, flippedRun, queriedRun, itemsRun, mails, lastEvt>>
  /\ UNCHANGED sideVars


\* ContentProcessor.processMultipleDiscussions: renders each thread; the
\* rendering reads no store that changes and keeps every thread.
ProcessMultipleDiscussions ==
  /\ pc = "process"
  /\ pc' = "write"
  /\ idx' = 1
  /\ UNCHANGED <<storeVars, pendingNotes, allDiscussions, newDiscussions, results,
                 wf, wfNotes, wfTask, wfResult, result, prevResult, exitCode, exitKind, ghostVars>>
  /\ UNCHANGED sideVars


\* ------------------------------------------------- sync(): step 6, the batch
\* One entry of writeMultipleDiscussions' results[].
WriteResult(t, ok) == [discussionId |-> t, success |-> ok, sourceNoteId |-> NoteOf(t)]

\* Where the loop of writeMultipleDiscussions goes after attempt i of n:
\* writeDiscussion never throws, so the loop goes on whatever the result.
AfterWriteRetry(ok, i, n) == IF ~ok THEN "write" ELSE IF i < n THEN "delay" ELSE "status"
AfterWriteGuardFirst(ok, i, n) == IF i < n THEN "delay" ELSE "wfBacklog"
AfterWriteNoDelay(ok, i, n) == IF i < n THEN (IF ok THEN "delay" ELSE "write") ELSE "status"
AfterWriteAbort(ok, i, n) == IF ok /\ i < n THEN "delay" ELSE "status"
AfterWrite(ok, i, n) == IF i < n THEN "delay" ELSE "status"

\* One iteration of the loop: DatabaseWriter.writeDiscussion on discussions[idx].
\* NotionClient.createPage creates the page and then awaits addSolutionSection,
\* whose error it rethrows: the record can exist although the write reports failure.
WriteDiscussion ==
  /\ pc = "write"
  /\ LET t == newDiscussions[idx]
         n == Len(newDiscussions)
     IN \E outcome \in {"ok", "createFailed", "sectionFailed"} :
          /\ IF outcome = "ok" THEN UNCHANGED faults ELSE Fails
          /\ IF outcome = "createFailed"
               THEN UNCHANGED <<target, unclassified, createdRun>>
               ELSE /\ target' = [target EXCEPT ![t] = @ + 1]
                    /\ unclassified' = [unclassified EXCEPT ![t] = @ + 1]
                    /\ createdRun' = createdRun \cup {t}
          /\ results' = Append(results, WriteResult(t, outcome = "ok"))
          /\ pc' = AfterWrite(outcome = "ok", idx, n)
          /\ idx' = IF pc' = "delay" THEN idx ELSE 1
  /\ lastEvt' = "write"
  /\ UNCHANGED <<noteStatus, live, foreign, items, pendingNotes, allDiscussions, newDiscussions,
                 wf, wfNotes, wfTask, wfResult, result, prevResult, exitCode, exitKind,
                 runs, human, quietRuns, flippedRun, queriedRun, itemsRun, mails>>
  /\ UNCHANGED sideVars


\* await delay(1000) between two attempts.
Delay ==
  /\ pc = "delay"
  /\ pc' = "write"
  /\ idx' = idx + 1
  /\ lastEvt' = "delay"
  /\ UNCHANGED <<storeVars, pendingNotes, allDiscussions, newDiscussions, results,
                 wf, wfNotes, wfTask, wfResult, result, prevResult, exitCode, exitKind,
                 runs, faults, human, quietRuns, createdRun, flippedRun, queriedRun, itemsRun, mails>>
  /\ UNCHANGED sideVars


successCount == Cardinality({i \in 1..Len(results) : results[i].success})
errorCount == Cardinality({i \in 1..Len(results) : ~results[i].success})

\* ------------------------------------------------- sync(): step 7
\* updateProcessedNotesStatus: sourceNoteSuccessCount[noteId].
SourceNoteAttemptCount(res, n) ==
  Cardinality({i \in 1..Len(res) : res[i].sourceNoteId = n})
SourceNoteSuccessCount(res, n) ==
  Cardinality({i \in 1..Len(res) : res[i].success /\ res[i].sourceNoteId = n})

\* sync() after step 7: step 8, the reference workflow, always follows.
AfterStatusSkipWorkflow == "stats2"
AfterStatus == "wfBacklog"

\* One iteration of the loop over pendingNotes.  updateAutomationStatus
\* rethrows; the try around the whole loop catches, so a failed update ends
\* the loop and leaves the notes after it untouched.
UpdateProcessedNotesStatus ==
  /\ pc = "status"
  /\ LET n == pendingNotes[idx]
         next == /\ IF idx < Len(pendingNotes)
                      THEN /\ idx' = idx + 1
                           /\ pc' = pc
                      ELSE /\ idx' = idx
                           /\ pc' = AfterStatus
     IN IF SourceNoteSuccessCount(results, n) > 0
          THEN \/ /\ noteStatus' = [noteStatus EXCEPT ![n] = Processed]
                  /\ flippedRun' = flippedRun \cup {n}
                  /\ next
                  /\ UNCHANGED faults
               \/ /\ Fails
                  /\ pc' = AfterStatus
                  /\ UNCHANGED <<noteStatus, flippedRun, idx>>
          ELSE /\ next
               /\ UNCHANGED <<noteStatus, flippedRun, faults>>
  /\ wf' = RefCat
  /\ UNCHANGED <<live, target, foreign, unclassified, items, pendingNotes, allDiscussions,
                 newDiscussions, results, wfNotes, wfTask, wfResult, result, prevResult, exitCode,
                 exitKind, runs, human, quietRuns, createdRun, queriedRun, itemsRun, mails, lastEvt>>
  /\ UNCHANGED sideVars


\* ------------------------------------------------- sync(): steps 8-9, the task guard
\* The backlog a workflow reads: findUnexecutedReferenceNotes (notes still
\* '未执行') or CardStatusChecker.findPendingCards (records with a DiscussionID
\* and no '它在解决什么问题？').
Backlog(c) ==
  IF c = RefCat THEN Cardinality(UnexecutedNotes) ELSE SumOver(unclassified, Threads)

\* The filter of findUnfinishedReferenceProcessingTask / ...CardProcessingTask:
\* title contains the category marker and Status does_not_equal '完成'.
MatchesUnfinished(c, item) == item.cat = c /\ item.status # Done

\* sorts 创建时间 descending, page_size 1: the newest match, 0 for null.
FindUnfinishedTask(c) ==
  LET hits == {i \in 1..Len(items) : MatchesUnfinished(c, items[i])}
  IN IF hits = {} THEN 0 ELSE CHOOSE i \in hits : \A j \in hits : j <= i

\* The catch of findUnfinished...ProcessingTask: the error is logged and null
\* is returned, whatever the database holds.
FindUnfinishedTaskStale(c) == FindUnfinishedTask(c)
FindUnfinishedTaskCaught(c) == 0

\* main.js step 9: the card workflow runs only if the reference workflow
\* succeeded and reported no unfinished task.
RunCardWorkflowAlways(r) == TRUE
RunCardWorkflow(r) == r.success /\ r.unfinishedTask = 0

\* The end of a workflow with result r: on to the card workflow or to step 10.
EndWorkflow(r) ==
  /\ wfResult' = [wfResult EXCEPT ![wf] = r]
  /\ IF wf = RefCat /\ RunCardWorkflow(r)
       THEN /\ wf' = CardCat
            /\ pc' = "wfBacklog"
       ELSE /\ wf' = wf
            /\ pc' = "stats2"

WfResult(ok, n, created, sent, task, err) ==
  [success |-> ok, backlog |-> n, actionTaskCreated |-> created,
   emailSent |-> sent, unfinishedTask |-> task, error |-> err]

\* Step 1 of a workflow: read the backlog; a failed query counts as empty.
WorkflowFindBacklog ==
  /\ pc = "wfBacklog"
  /\ \E n \in {Backlog(wf), 0} :
       /\ IF n = Backlog(wf) THEN UNCHANGED faults ELSE Fails
       /\ IF n = 0
            THEN /\ EndWorkflow(WfResult(TRUE, 0, FALSE, FALSE, 0, "none"))
                 /\ UNCHANGED wfNotes
            ELSE /\ wfNotes' = n
                 /\ pc' = "wfGuard"
                 /\ UNCHANGED <<wf, wfResult>>
  /\ UNCHANGED <<storeVars, pendingNotes, allDiscussions, newDiscussions, idx, results,
                 wfTask, result, prevResult, exitCode, exitKind,
                 runs, human, quietRuns, createdRun, flippedRun, queriedRun, itemsRun, mails, lastEvt>>
  /\ UNCHANGED sideVars


\* if (unfinishedTask) { warn } else { create }: the branch after the query.
GuardBranchMailFirst(task) == IF task # 0 THEN "wfWarn" ELSE "wfMail"
GuardBranch(task) == IF task # 0 THEN "wfWarn" ELSE "wfCreate"

\* Step 1.5: the unresolved-task query; its catch returns null.
WorkflowGuard ==
  /\ pc = "wfGuard"
  /\ queriedRun' = queriedRun \cup {wf}
  /\ \/ /\ wfTask' = FindUnfinishedTask(wf)
        /\ UNCHANGED faults
     \/ /\ Fails
        /\ wfTask' = FindUnfinishedTaskCaught(wf)
  /\ pc' = GuardBranch(wfTask')
  /\ UNCHANGED <<storeVars, pendingNotes, allDiscussions, newDiscussions, idx, results,
                 wf, wfNotes, wfResult, result, prevResult, exitCode, exitKind,
                 runs, human, quietRuns, createdRun, flippedRun, itemsRun, mails, lastEvt>>
  /\ UNCHANGED sideVars


Mail(kind, c, task, n) == [kind |-> kind, cat |-> c, task |-> task, backlog |-> n]

\* The workflow's result after a send: the send methods return false when the
\* mailer is unconfigured or sendMail fails and never throw, so the failure is
\* only recorded in emailSent.
AfterSendThrows(sent, n, created, task) ==
  IF sent THEN WfResult(TRUE, n, created, sent, task, "none")
  ELSE WfResult(FALSE, 0, FALSE, FALSE, 0, "mail")
AfterSend(sent, n, created, task) == WfResult(TRUE, n, created, sent, task, "none")

\* Unfinished branch: sendUnfinished...Warning (returns false on failure) and
\* the result with actionTaskCreated false.
WorkflowWarn ==
  /\ pc = "wfWarn"
  /\ mails' = mails \cup {Mail("warning", wf, wfTask, wfNotes)}
  /\ \E sent \in BOOLEAN :
       /\ IF sent THEN UNCHANGED faults ELSE Fails
       /\ EndWorkflow(AfterSend(sent, wfNotes, FALSE, wfTask))
  /\ UNCHANGED <<storeVars, pendingNotes, allDiscussions, newDiscussions, idx, results,
                 wfNotes, wfTask, result, prevResult, exitCode, exitKind,
                 runs, human, quietRuns, createdRun, flippedRun, queriedRun, itemsRun, lastEvt>>
  /\ UNCHANGED sideVars


\* Step 2: create...ProcessingTask -> NotionClient.createActionTask (Status '未开始').
NewTask(c) == [cat |-> c, status |-> NotStarted]
\* a creation that closes the category's older WorkItems
CreateActionTaskCloseOld(its, c) ==
  Append([i \in 1..Len(its) |-> IF its[i].cat = c THEN [its[i] EXCEPT !.status = Done] ELSE its[i]],
         NewTask(c))
\* NotionClient.createActionTask: pages.create in the action database
CreateActionTask(its, c) == Append(its, NewTask(c))
WorkflowCreateTask ==
  /\ pc = "wfCreate"
  /\ \/ /\ items' = CreateActionTask(items, wf)
        /\ itemsRun' = [itemsRun EXCEPT ![wf] = @ + 1]
        /\ pc' = "wfMail"
        /\ UNCHANGED <<wf, wfResult, faults>>
     \/ /\ Fails
        /\ EndWorkflow(WfResult(FALSE, wfNotes, FALSE, FALSE, 0, "create"))
        /\ UNCHANGED <<items, itemsRun>>
  /\ UNCHANGED <<noteStatus, live, target, foreign, unclassified, pendingNotes, allDiscussions,
                 newDiscussions, idx, results, wfNotes, wfTask, result, prevResult, exitCode, exitKind,
                 runs, human, quietRuns, createdRun, flippedRun, queriedRun, mails, lastEvt>>
  /\ UNCHANGED sideVars


\* Step 3: send...ProcessingReminder with the link of the task just created.
WorkflowMail ==
  /\ pc = "wfMail"
  /\ mails' = mails \cup {Mail("reminder", wf, Len(items), wfNotes)}
  /\ \E sent \in BOOLEAN :
       /\ IF sent THEN UNCHANGED faults ELSE Fails
       /\ EndWorkflow(AfterSend(sent, wfNotes, TRUE, 0))
  /\ UNCHANGED <<storeVars, pendingNotes, allDiscussions, newDiscussions, idx, results,
                 wfNotes, wfTask, result, prevResult, exitCode, exitKind,
                 runs, human, quietRuns, createdRun, flippedRun, queriedRun, itemsRun, lastEvt>>
  /\ UNCHANGED sideVars


\* ------------------------------------------------- sync(): step 10 and return
FullResultAttempts ==
  [success |-> TRUE, processed |-> Len(allDiscussions), written |-> Len(results),
   errors |-> errorCount, error |-> "none"]
FullResult ==
  [success |-> TRUE, processed |-> Len(allDiscussions), written |-> successCount,
   errors |-> errorCount, error |-> "none"]

GetDatabaseStatsAfter ==
  /\ pc = "stats2"
  /\ \/ /\ Return(FullResult, "full")
        /\ UNCHANGED faults
     \/ /\ Fails
        /\ Return(FatalResult("stats"), "fatal")
  /\ UNCHANGED <<storeVars, pendingNotes, allDiscussions, newDiscussions, idx, results,
                 wf, wfNotes, wfTask, wfResult, prevResult, exitCode,
                 runs, human, quietRuns, createdRun, flippedRun, queriedRun, itemsRun, mails, lastEvt>>
  /\ UNCHANGED sideVars


\* ------------------------------------------------- comment texts
\* A text is a sequence of characters; the characters that matter to the code:
\* the prefix letters "Q", "A" and "arrow" (the arrow character), the
\* half-width colon, the full-width colon ("fwcolon"), a blank, and "x" for
\* any other character.
Blank == " "

\* the prefixes with a half-width colon only
halfWidthPrefixes ==
  << <<"A", ":">>, <<"A", ":", Blank>>, <<"Q", ":">>, <<"Q", ":", Blank>>,
     <<"arrow", ":">>, <<"arrow", ":", Blank>> >>
\* CommentFetcher.alternativePrefixes, in the order of the array.
alternativePrefixes ==
  << <<"A", ":">>, <<"A", "fwcolon">>, <<"A", ":", Blank>>,
     <<"Q", ":">>, <<"Q", "fwcolon">>, <<"Q", ":", Blank>>,
     <<"arrow", ":">>, <<"arrow", "fwcolon">>, <<"arrow", ":", Blank>> >>

\* String.prototype.startsWith
StartsWith(s, p) == Len(p) <= Len(s) /\ SubSeq(s, 1, Len(p)) = p

\* the blanks a regular expression's \s* or trimStart() consumes
RECURSIVE TrimStart(_)
TrimStart(s) == IF s # <<>> /\ Head(s) = Blank THEN TrimStart(Tail(s)) ELSE s
RECURSIVE TrimEnd(_)
TrimEnd(s) ==
  IF s # <<>> /\ s[Len(s)] = Blank THEN TrimEnd(SubSeq(s, 1, Len(s) - 1)) ELSE s
\* String.prototype.trim
Trim(s) == TrimEnd(TrimStart(s))

RECURSIVE Join(_)
Join(segs) == IF segs = <<>> THEN <<>> ELSE Head(segs) \o Join(Tail(segs))

\* extractCommentText: rich_text.map(t => t.plain_text).join('').trim()
extractCommentText(c) == Trim(Join(c.rich_text))

\* the callback of comments.some / comments.find in filterValidDiscussions
HasValidPrefix(c) ==
  \E i \in 1..Len(alternativePrefixes) :
    StartsWith(Trim(extractCommentText(c)), alternativePrefixes[i])

\* alternativePrefixes.find(prefix => titleText.trim().startsWith(prefix))
ActualPrefix(t) ==
  alternativePrefixes[CHOOSE i \in 1..Len(alternativePrefixes) :
     /\ StartsWith(Trim(t), alternativePrefixes[i])
     /\ \A j \in 1..(i - 1) : ~StartsWith(Trim(t), alternativePrefixes[j])]

\* a title that keeps the prefix
TitleKeepPrefix(c) == Trim(extractCommentText(c))
\* titleText.trim().replace(new RegExp(`^${actualPrefix}\\s*`), '').trim()
TitleOf(c) ==
  LET t == Trim(extractCommentText(c))
  IN Trim(TrimStart(SubSeq(t, Len(ActualPrefix(t)) + 1, Len(t))))

\* comments.sort((a, b) => new Date(a.created_time) - new Date(b.created_time)):
\* Array.prototype.sort is stable.
RECURSIVE SortUnstable(_)
SortUnstable(s) ==
  IF s = <<>> THEN <<>>
  ELSE LET rest == SortUnstable(SubSeq(s, 1, Len(s) - 1))
           c == s[Len(s)]
           k == Cardinality({i \in 1..Len(rest) : rest[i].created_time < c.created_time})
       IN SubSeq(rest, 1, k) \o <<c>> \o SubSeq(rest, k + 1, Len(rest))
RECURSIVE SortByCreatedTime(_)
SortByCreatedTime(s) ==
  IF s = <<>> THEN <<>>
  ELSE LET rest == SortByCreatedTime(SubSeq(s, 1, Len(s) - 1))
           c == s[Len(s)]
           k == Cardinality({i \in 1..Len(rest) : rest[i].created_time <= c.created_time})
       IN SubSeq(rest, 1, k) \o <<c>> \o SubSeq(rest, k + 1, Len(rest))

\* the index of the comment that comments.find returns: the first with a prefix
FirstPrefixed(s) ==
  CHOOSE i \in 1..Len(s) : HasValidPrefix(s[i]) /\ \A j \in 1..(i - 1) : ~HasValidPrefix(s[j])

NoThread == [valid |-> FALSE, title |-> <<>>, comments |-> <<>>]

\* filterValidDiscussions for the group of one discussion_id: the Thread it
\* pushes, or NoThread when no comment has a valid prefix.
filterValidDiscussions(group) ==
  IF \E i \in 1..Len(group) : HasValidPrefix(group[i])
    THEN LET sorted == SortByCreatedTime(group)
         IN [valid |-> TRUE,
             title |-> TitleOf(sorted[FirstPrefixed(sorted)]),
             comments |-> sorted]
    ELSE NoThread

\* comment.rich_text?.[0]?.plain_text || ''
FirstPlainText(c) == IF c.rich_text = <<>> THEN <<>> ELSE c.rich_text[1]

\* the if/else chain of groupCommentsByType: /^Q:?/, /^A:?/, /^arrow:?/ matched
\* against the trimmed first segment; the optional colon never decides a match.
CommentType(c) ==
  LET t == Trim(FirstPlainText(c))
  IN IF StartsWith(t, <<"Q">>) THEN "Q"
     ELSE IF StartsWith(t, <<"A">>) THEN "A"
     ELSE IF StartsWith(t, <<"arrow">>) THEN "arrow"
     ELSE "other"

Types == {"Q", "A", "arrow", "other"}

groupCommentsByType(comments) ==
  [k \in Types |-> SelectSeq(comments, LAMBDA c : CommentType(c) = k)]

\* commentText.replace(/^L:?\s*/, '') for the letter L: the half-width colon only
StripPrefix(t, letter) ==
  IF StartsWith(t, <<letter>>)
    THEN LET r == Tail(t)
         IN TrimStart(IF r # <<>> /\ Head(r) = ":" THEN Tail(r) ELSE r)
    ELSE t

\* a block of the page: its type and the text of its rich_text
Block(type, text) == [type |-> type, text |-> text]

\* the five blocks generatePageContent puts in front with children.unshift,
\* in the order they end up in
SolutionBlocks ==
  << Block("divider", <<>>), Block("paragraph", <<"tip">>),
     Block("paragraph", <<"link">>), Block("paragraph", <<"databases">>),
     Block("heading_2", <<"Solution">>) >>

ReferenceHeading == Block("heading_2", <<"Reference">>)

\* the paragraph of a Q, A or arrow comment: letter, full-width colon, content
PrefixedBlock(letter, c) ==
  Block("paragraph", <<letter, "fwcolon">> \o StripPrefix(FirstPlainText(c), letter))

\* the paragraph of any other comment: author and time, then the full text
OtherBlock(c) == Block("paragraph", <<"byline", Blank>> \o extractCommentText(c))

\* the quote block of the source block (blockInfo of the first comment)
QuoteBlock(d) == Block("quote", d.comments[1].blockInfo)

BlocksOf(letter, cs) == [i \in 1..Len(cs) |-> PrefixedBlock(letter, cs[i])]

generatePageContent(d) ==
  LET g == groupCommentsByType(d.comments)
  IN SolutionBlocks
       \o <<ReferenceHeading>>
       \o BlocksOf("Q", g["Q"])
       \o BlocksOf("A", g["A"])
       \o <<QuoteBlock(d)>>
       \o BlocksOf("arrow", g["arrow"])
       \o [i \in 1..Len(g["other"]) |-> OtherBlock(g["other"][i])]

\* ------------------------------------------------- text pipeline
MaxMembers == 2     \* comments of one discussion
MaxTime == 2        \* distinct created_time values

\* the body character of the comment fetched i-th
Body(i) == <<"x", "y", "z", "w">>[i]

\* the rich_text arrays a comment with body character b can have
RichTexts(b) ==
  { << <<"Q", ":", Blank, b>> >>,        << <<"Q", "fwcolon", b>> >>,
    << <<"Q", b>> >>,                    << <<Blank, "Q", ":", b>> >>,
    << <<"A", ":", b>> >>,               << <<"arrow", "fwcolon", Blank, b>> >>,
    << <<b>> >>,                         << <<"q", ":", b>> >>,
    << <<b, "Q", ":">> >>,               << <<Blank>>, <<"Q", ":", b>> >>,
    << <<"Q">>, <<":", b>> >>,           <<>> }

\* the comments fetchAndGroupComments can put at position i of a group
CommentsAt(i) ==
  [id : {i}, rich_text : RichTexts(Body(i)), created_time : 1..MaxTime,
   blockInfo : {<<"source">>}]

Groups ==
  UNION {{g \in [1..n -> UNION {CommentsAt(i) : i \in 1..n}] :
            \A i \in 1..n : g[i] \in CommentsAt(i)} : n \in 1..MaxMembers}

TextInit ==
  /\ SyncInit
  /\ live = Threads
  /\ foreign = 0
  /\ textPc = "fetched"
  /\ fetched \in Groups
  /\ discussion = NoThread
  /\ grouped = [k \in Types |-> <<>>]
  /\ children = <<>>
  /\ WalkOff
  /\ TaskOff

\* CommentFetcher.filterValidDiscussions on the group of one discussion_id
FilterValidDiscussions ==
  /\ textPc = "fetched"
  /\ discussion' = filterValidDiscussions(fetched)
  /\ textPc' = IF discussion'.valid THEN "thread" ELSE "dropped"
  /\ UNCHANGED <<fetched, grouped, children, storeVars, runVars, ghostVars, walkVars, taskVars>>

\* ContentProcessor.generatePageContent on the thread
GeneratePageContent ==
  /\ textPc = "thread"
  /\ grouped' = groupCommentsByType(discussion.comments)
  /\ children' = generatePageContent(discussion)
  /\ textPc' = "rendered"
  /\ UNCHANGED <<fetched, discussion, storeVars, runVars, ghostVars, walkVars, taskVars>>

TextNext == FilterValidDiscussions \/ GeneratePageContent

SpecText == TextInit /\ [][TextNext]_vars

\* ------------------------------------------------- block tree walker
MaxBlocks == 3      \* blocks of one document
MaxPage == 2        \* most results the API puts in one page of a children list

Root == 0           \* the page itself; its blocks are 1..doc.n

\* The documents: block i hangs under doc.parent[i], a block met before it or the
\* page; every children list comes in pages of doc.pageLen results; the
\* children-list requests of the nodes in doc.failList fail at their page number
\* doc.failPage; the blocks in doc.commented carry one comment; comments.list
\* fails for the blocks in doc.failComments; at most MaxFaults requests of a
\* kind fail.
Docs ==
  UNION {[n : {k},
          parent : {f \in [1..k -> 0..k] : \A i \in 1..k : f[i] < i},
          pageLen : 1..MaxPage,
          failList : {s \in SUBSET (0..k) : Cardinality(s) <= MaxFaults},
          failPage : 1..2,
          commented : SUBSET (1..k),
          failComments : {s \in SUBSET (1..k) : Cardinality(s) <= MaxFaults}] :
         k \in 0..MaxBlocks}

\* the children of node n, in the order the API lists them
ChildrenOf(n) == SelectSeq([i \in 1..doc.n |-> i], LAMBDA b : doc.parent[b] = n)

\* block.has_children
HasChildren(b) == \E c \in 1..doc.n : doc.parent[c] = b

\* blocks.children.list({ block_id, start_cursor, page_size: 100 }): one page
ListChildren(n, cursor) ==
  LET ch == ChildrenOf(n)
      hi == Min(cursor + doc.pageLen, Len(ch))
  IN [results |-> SubSeq(ch, cursor + 1, hi), has_more |-> hi < Len(ch), next_cursor |-> hi]

\* an API whose children-list requests never throw
ListNeverFails(n, k) == FALSE
\* the k-th children-list request for node n throws
ListFails(n, k) == n \in doc.failList /\ k = doc.failPage

Thrown == [ok |-> FALSE, blocks |-> <<>>]

\* a loop that stops after the first page
DirectBlocksFirstPage(n, cursor, k) ==
  IF ListFails(n, k) THEN Thrown
  ELSE [ok |-> TRUE, blocks |-> ListChildren(n, cursor).results]
\* the while (hasMore) loop of getAllBlocksRecursively from its k-th request on
RECURSIVE DirectBlocks(_, _, _)
DirectBlocks(n, cursor, k) ==
  IF ListFails(n, k) THEN Thrown
  ELSE LET r == ListChildren(n, cursor)
       IN IF r.has_more
            THEN LET rest == DirectBlocks(n, r.next_cursor, k + 1)
                 IN IF rest.ok THEN [ok |-> TRUE, blocks |-> r.results \o rest.blocks]
                    ELSE Thrown
            ELSE [ok |-> TRUE, blocks |-> r.results]

\* getAllBlocksRecursively: the direct blocks, then the nested blocks of every
\* direct block with children; an error anywhere in the body returns [].
RECURSIVE getAllBlocksRecursively(_)
RECURSIVE NestedBlocks(_)
NestedBlocks(bs) ==
  IF bs = <<>> THEN <<>>
  ELSE (IF HasChildren(Head(bs)) THEN getAllBlocksRecursively(Head(bs)) ELSE <<>>)
         \o NestedBlocks(Tail(bs))
getAllBlocksRecursively(n) ==
  LET d == DirectBlocks(n, 0, 1)
  IN IF d.ok THEN d.blocks \o NestedBlocks(d.blocks) ELSE <<>>

\* the comment of block b: one comment with a valid prefix, in its own discussion
CommentOn(b) ==
  [id |-> 1, rich_text |-> << <<"Q", ":", "x">> >>, created_time |-> 1,
   blockInfo |-> <<"source">>, discussion_id |-> b]

\* a loop that gives up at the first comments.list that throws
CollectCommentsAbort(blocks) ==
  IF \E i \in 1..Len(blocks) : blocks[i] \in doc.failComments THEN <<>>
  ELSE SelectSeq([i \in 1..Len(blocks) |->
                    [block |-> blocks[i], comments |-> <<CommentOn(blocks[i])>>]],
                 LAMBDA e : e.block \in doc.commented)
\* the for loop of getPageBlocksWithComments over blocks: a block whose
\* comments.list throws or returns no result is skipped
RECURSIVE CollectComments(_)
CollectComments(blocks) ==
  IF blocks = <<>> THEN <<>>
  ELSE LET b == Head(blocks)
       IN (IF b \in doc.commented /\ b \notin doc.failComments
             THEN <<[block |-> b, comments |-> <<CommentOn(b)>>]>>
             ELSE <<>>)
            \o CollectComments(Tail(blocks))

\* fetchAndGroupComments after getPageBlocksWithComments: all comments, grouped
\* by discussion_id, the valid groups as Threads
GroupAndFilter(bwc) ==
  LET threads == [i \in 1..Len(bwc) |->
                    [discussionId |-> bwc[i].comments[1].discussion_id,
                     thread |-> filterValidDiscussions(bwc[i].comments)]]
  IN SelectSeq(threads, LAMBDA t : t.thread.valid)

WalkInit ==
  /\ SyncInit
  /\ live = Threads
  /\ foreign = 0
  /\ TextOff
  /\ TaskOff
  /\ walkPc = "start"
  /\ doc \in Docs
  /\ Cardinality(doc.failList) + Cardinality(doc.failComments) <= MaxFaults
  /\ allBlocks = <<>>
  /\ blocksWithComments = <<>>
  /\ validDiscussions = <<>>

\* NotionClient.getAllBlocksRecursively(pageId)
GetAllBlocksRecursively ==
  /\ walkPc = "start"
  /\ allBlocks' = getAllBlocksRecursively(Root)
  /\ walkPc' = "blocks"
  /\ UNCHANGED <<doc, blocksWithComments, validDiscussions,
                 storeVars, runVars, ghostVars, textVars, taskVars>>

\* NotionClient.getPageBlocksWithComments: the loop over allBlocks
GetPageBlocksWithComments ==
  /\ walkPc = "blocks"
  /\ blocksWithComments' = CollectComments(allBlocks)
  /\ walkPc' = "comments"
  /\ UNCHANGED <<doc, allBlocks, validDiscussions,
                 storeVars, runVars, ghostVars, textVars, taskVars>>

\* CommentFetcher.fetchAndGroupComments: what it returns
GroupFetchedComments ==
  /\ walkPc = "comments"
  /\ validDiscussions' = GroupAndFilter(blocksWithComments)
  /\ walkPc' = "returned"
  /\ UNCHANGED <<doc, allBlocks, blocksWithComments,
                 storeVars, runVars, ghostVars, textVars, taskVars>>

WalkNext == GetAllBlocksRecursively \/ GetPageBlocksWithComments \/ GroupFetchedComments

SpecWalk == WalkInit /\ [][WalkNext]_vars

\* ------------------------------------------------- WorkItem body
MaxBacklog == 12    \* entries of a backlog

PreviewSize == 10   \* unexecutedNotes.slice(0, 10), pendingCards.slice(0, 10)
BlockCeiling == 100 \* the most blocks the store takes in one request

\* a content block: its type, the backlog entry it details (0 for none) and,
\* for the line that counts the entries not shown, that count (else 0)
TaskBlock(type, entry, rest) == [type |-> type, entry |-> entry, rest |-> rest]

\* the blocks every body starts with
TaskHead ==
  << TaskBlock("heading_1", 0, 0), TaskBlock("paragraph", 0, 0), TaskBlock("paragraph", 0, 0),
     TaskBlock("heading_2", 0, 0), TaskBlock("paragraph", 0, 0) >>

\* the blocks every body ends with
TaskTail ==
  << TaskBlock("heading_2", 0, 0), TaskBlock("numbered_list_item", 0, 0),
     TaskBlock("numbered_list_item", 0, 0), TaskBlock("numbered_list_item", 0, 0),
     TaskBlock("numbered_list_item", 0, 0), TaskBlock("paragraph", 0, 0) >>

\* a preview without the slice
ShowAll(n) == n
\* notesToShow.length, cardsToShow.length
Shown(n) == Min(n, PreviewSize)

\* the blocks of the i-th note shown
NoteBlocks(i) ==
  << TaskBlock("heading_3", i, 0), TaskBlock("paragraph", i, 0),
     TaskBlock("paragraph", i, 0), TaskBlock("divider", i, 0) >>

\* the blocks of the i-th card shown: the link paragraph only if card.pageUrl
CardBlocks(i, hasUrl) ==
  << TaskBlock("heading_3", i, 0), TaskBlock("paragraph", i, 0) >>
    \o (IF hasUrl THEN <<TaskBlock("paragraph", i, 0)>> ELSE <<>>)
    \o << TaskBlock("divider", i, 0) >>

RECURSIVE Flatten(_)
Flatten(ss) == IF ss = <<>> THEN <<>> ELSE Head(ss) \o Flatten(Tail(ss))

\* the list section: its heading, the entries shown, the count of the others
ListSection(n, entries) ==
  IF Shown(n) > 0
    THEN <<TaskBlock("heading_2", 0, 0)>>
           \o Flatten(entries)
           \o (IF n - Shown(n) > 0 THEN <<TaskBlock("paragraph", 0, n - Shown(n))>> ELSE <<>>)
    ELSE <<>>

buildReferenceTaskContent(n) ==
  TaskHead \o ListSection(n, [i \in 1..Shown(n) |-> NoteBlocks(i)]) \o TaskTail

buildTaskContent(n, noUrl) ==
  TaskHead \o ListSection(n, [i \in 1..Shown(n) |-> CardBlocks(i, i \notin noUrl)]) \o TaskTail

\* the backlogs: Reference notes, or cards of which at most one has no pageUrl
Backlogs ==
  UNION {[cat : {RefCat}, n : {k}, noUrl : {{}}]
           \cup [cat : {CardCat}, n : {k}, noUrl : {{}} \cup {{i} : i \in 1..k}]
         : k \in 0..MaxBacklog}

TaskInit ==
  /\ SyncInit
  /\ live = Threads
  /\ foreign = 0
  /\ TextOff
  /\ WalkOff
  /\ taskPc = "start"
  /\ backlog \in Backlogs
  /\ taskContent = <<>>

\* ActionTaskCreator.buildReferenceTaskContent
BuildReferenceTaskContent ==
  /\ taskPc = "start"
  /\ backlog.cat = RefCat
  /\ taskContent' = buildReferenceTaskContent(backlog.n)
  /\ taskPc' = "built"
  /\ UNCHANGED <<backlog, storeVars, runVars, ghostVars, textVars, walkVars>>

\* ActionTaskCreator.buildTaskContent
BuildTaskContent ==
  /\ taskPc = "start"
  /\ backlog.cat = CardCat
  /\ taskContent' = buildTaskContent(backlog.n, backlog.noUrl)
  /\ taskPc' = "built"
  /\ UNCHANGED <<backlog, storeVars, runVars, ghostVars, textVars, walkVars>>

TaskNext == BuildReferenceTaskContent \/ BuildTaskContent

SpecTask == TaskInit /\ [][TaskNext]_vars

\* ------------------------------------------------- specification
External ==
  \/ \E t \in Threads : AddAnnotation(t)
  \/ \E n \in Notes : ResetNote(n)
  \/ \E t \in Threads : ClassifyCard(t)
  \/ \E i \in 1..Len(items) : StartWork(i)
  \/ \E i \in 1..Len(items) : MarkDone(i)

Pipeline ==
  \/ StartSync
  \/ ValidateDatabaseStructure
  \/ GetDatabaseStatsBefore
  \/ GetUnexecutedNotes
  \/ ProcessNote
  \/ Dedup
  \/ ProcessMultipleDiscussions
  \/ WriteDiscussion
  \/ Delay
  \/ UpdateProcessedNotesStatus
  \/ WorkflowFindBacklog
  \/ WorkflowGuard
  \/ WorkflowWarn
  \/ WorkflowCreateTask
  \/ WorkflowMail
  \/ GetDatabaseStatsAfter
  \/ Main

Next == External \/ Pipeline

Spec == Init /\ [][Next]_vars

\* A step of a run that has started: every await of sync() settles (the call
\* returns or throws), so a started run keeps taking steps until main() ends.
RunStep == pc # "idle" /\ Pipeline

\* The pipeline under that scheduling.
SpecLive == Init /\ [][Next]_vars /\ WF_vars(RunStep)

TypeOK ==
  /\ noteStatus \in [Notes -> {Unprocessed, Processed}]
  /\ live \subseteq Threads
  /\ target \in [Threads -> 0..MaxRuns]
  /\ \A t \in Threads : unclassified[t] <= target[t]
  /\ faults \in 0..MaxFaults
  /\ runs \in 0..MaxRuns
  /\ Len(results) <= Len(newDiscussions)

\* ------------------------------------------------- properties
OpenItems(c) == {i \in 1..Len(items) : items[i].cat = c /\ items[i].status # Done}
RunEnded == pc = "done"
BatchDone == pc \in {"status", "wfBacklog", "wfGuard", "wfWarn", "wfCreate", "wfMail", "stats2"}
             \/ (pc = "done" /\ Len(newDiscussions) > 0)
WorkflowRan(c) == wfResult[c] # NoWfResult

\* C1: idempotence of sync(): the second of two runs in succession (no user
\* action since the first began) creates no TargetRecord and reports
\* written == 0.  Stated for the runs that start with a TargetRecord already
\* in the store for every annotated thread, so that nothing is left to write.
HadRecord(t) == target[t] > (IF t \in createdRun THEN 1 ELSE 0)
C1_Idempotence ==
  (RunEnded /\ quietRuns = 2 /\ \A t \in live : HadRecord(t))
    => (createdRun = {} /\ (result.success => result.written = 0))

\* C2: dedup invariant: no two TargetRecords carry the same discussionId.
C2_DedupInvariant == \A t \in Threads : target[t] <= 1

\* C3: guard invariant: for every category there is never more than one
\* WorkItem whose status is not Done.
C3_GuardInvariant == \A c \in Cats : Cardinality(OpenItems(c)) <= 1

\* C4: guard, unresolved branch: with a non-empty backlog and a WorkItem of the
\* category that is not Done, the workflow creates no WorkItem, emits the
\* warning (naming the open item and the backlog size) and returns success
\* with actionTaskCreated false.
C4_UnresolvedBranch ==
  [][(pc = "wfGuard" /\ OpenItems(wf) # {})
       => /\ pc' = "wfWarn"
          /\ wfTask' \in OpenItems(wf)
          /\ items' = items]_vars
  /\ [][pc = "wfWarn"
       => /\ items' = items
          /\ Mail("warning", wf, wfTask, wfNotes) \in mails'
          /\ wfNotes = Backlog(wf)
          /\ wfResult'[wf].success
          /\ ~wfResult'[wf].actionTaskCreated]_vars

\* C5 as stated: with a non-empty backlog and no WorkItem of the category that
\* is not Done, one workflow execution creates exactly one new WorkItem and
\* then emits the reminder.
C5_ExactlyOneCreated ==
  [][(pc = "wfCreate" /\ OpenItems(wf) = {})
       => /\ items' = Append(items, NewTask(wf))
          /\ pc' = "wfMail"]_vars

\* C5 amended: in that branch the workflow creates at most one WorkItem,
\* exactly one unless the creation request fails; the reminder is emitted only
\* after the WorkItem exists; a failed creation ends the workflow with
\* success false, no WorkItem and no reminder.
C5_CreateThenRemind ==
  /\ [](\A c \in Cats :
          /\ itemsRun[c] <= 1
          /\ (\E m \in mails : m.kind = "reminder" /\ m.cat = c) => itemsRun[c] = 1
          /\ (WorkflowRan(c) /\ wfResult[c].backlog > 0 /\ wfResult[c].unfinishedTask = 0)
               => /\ wfResult[c].success <=> itemsRun[c] = 1
                  /\ wfResult[c].success <=> wfResult[c].actionTaskCreated
                  /\ wfResult[c].success <=> (\E m \in mails : m.kind = "reminder" /\ m.cat = c))
  /\ [][(pc = "wfCreate" /\ OpenItems(wf) = {})
          => /\ mails' = mails
             /\ \/ items' = Append(items, NewTask(wf)) /\ pc' = "wfMail"
                \/ items' = items /\ ~wfResult'[wf].success]_vars
  /\ [][mails' # mails /\ pc = "wfMail"
          => /\ itemsRun[wf] = 1
             /\ items[Len(items)] = NewTask(wf)
             /\ mails' = mails \cup {Mail("reminder", wf, Len(items), wfNotes)}]_vars
C5_Witness ==
  /\ RunEnded
  /\ wfResult[RefCat].actionTaskCreated
  /\ itemsRun[RefCat] = 1
  /\ Mail("reminder", RefCat, Len(items), wfResult[RefCat].backlog) \in mails
     \/ Mail("reminder", RefCat, Len(items) - 1, wfResult[RefCat].backlog) \in mails

\* C6 as stated: whether the card guard is evaluated depends on the card
\* category alone: a run that reaches the workflows with a non-empty card
\* backlog evaluates the card guard.
C6_Independent ==
  (RunEnded /\ exitKind = "full" /\ faults = 0 /\ Backlog(CardCat) > 0)
    => CardCat \in queriedRun

\* C6 amended: the reference guard is evaluated whenever the reference
\* workflow reads a non-empty backlog, whatever the card category's state; the
\* card workflow runs if and only if the reference workflow returned success
\* without an unfinished reference task, and then its guard is evaluated
\* whenever it reads a non-empty card backlog.
C6_CardGatedByReference ==
  (RunEnded /\ exitKind = "full")
    => /\ WorkflowRan(RefCat)
       /\ RefCat \in queriedRun <=> wfResult[RefCat].backlog > 0
       /\ WorkflowRan(CardCat)
            <=> (wfResult[RefCat].success /\ wfResult[RefCat].unfinishedTask = 0)
       /\ CardCat \in queriedRun <=> (WorkflowRan(CardCat) /\ wfResult[CardCat].backlog > 0)
       /\ faults = 0 => wfResult[RefCat].backlog = Backlog(RefCat)
       /\ (faults = 0 /\ WorkflowRan(CardCat)) => wfResult[CardCat].backlog = Backlog(CardCat)
C6_Witness ==
  /\ RunEnded
  /\ exitKind = "full"
  /\ wfResult[RefCat].unfinishedTask # 0
  /\ Backlog(CardCat) > 0
  /\ CardCat \notin queriedRun

C8_ProcessedEqualsPrevious ==
  (/\ RunEnded /\ quietRuns = 2
   /\ prevResult.success /\ result.success
   /\ createdRun = {}
   /\ \A t \in live : HadRecord(t))
    => (result.written = 0 /\ result.processed = prevResult.processed)

\* C8 amended: such a run reports written == 0 and creates nothing, and its
\* processed is the number of valid Threads it read from the notes that are
\* still Unprocessed: 0 when it returns at "no pending notes" or "no valid
\* discussions", Len(allDiscussions) > 0 when it returns at "no new
\* discussions".  Notes the first run set to Processed are not read again, so
\* this is the first run's total only if that run flipped no note with Threads.
EarlyExits == {"noPending", "noValid", "noNew"}
C8_ProcessedCountsPending ==
  (RunEnded /\ exitKind \in EarlyExits)
    => /\ result.success
       /\ result.written = 0
       /\ result.errors = 0
       /\ createdRun = {}
       /\ newDiscussions = <<>>
       /\ Range(allDiscussions) \subseteq {t \in live : noteStatus[NoteOf(t)] = Unprocessed}
       /\ exitKind = "noPending" => (pendingNotes = <<>> /\ result.processed = 0)
       /\ exitKind = "noValid" => (allDiscussions = <<>> /\ result.processed = 0)
       /\ exitKind = "noNew" => (result.processed = Len(allDiscussions) /\ result.processed > 0)
       /\ faults = 0
            => IF exitKind = "noPending"
                 THEN UnexecutedNotes = {}
                 ELSE Len(allDiscussions)
                        = Cardinality({t \in live : noteStatus[NoteOf(t)] = Unprocessed})
C8_Witness ==
  /\ RunEnded
  /\ exitKind = "noNew"
  /\ quietRuns = 2
  /\ prevResult.success
  /\ \A t \in live : HadRecord(t)
  /\ result.processed < prevResult.processed

\* C9: status flip: a note goes from Unprocessed to Processed in a step of a
\* run only if one of its Threads has a successful write result in that run,
\* and that write created a TargetRecord in that run.
C9_FlipOnlyAfterSuccess ==
  [][\A n \in Notes :
       (noteStatus[n] = Unprocessed /\ noteStatus'[n] = Processed)
         => \E i \in 1..Len(results) :
              /\ results[i].success
              /\ NoteOf(results[i].discussionId) = n
              /\ results[i].discussionId \in createdRun
              /\ target[results[i].discussionId] > 0]_vars
C9_Witness ==
  /\ RunEnded
  /\ flippedRun # {}
  /\ \E n \in Notes :
       /\ SourceNoteAttemptCount(results, n) > 0
       /\ noteStatus[n] = Unprocessed
       /\ n \notin flippedRun

\* C10: write-failure isolation: a failed write is one failed entry of
\* results[], and every later Thread of the list is still attempted: the
\* batch ends with one entry per Thread, in the order of the list.
C10_FailureIsolation ==
  /\ pc = "write" => Len(results) = idx - 1
  /\ pc = "delay" => Len(results) = idx
  /\ BatchDone
       => /\ Len(results) = Len(newDiscussions)
          /\ \A i \in 1..Len(results) : results[i].discussionId = newDiscussions[i]
          /\ \A i \in 1..Len(results) : results[i].success => results[i].discussionId \in createdRun
          /\ successCount + errorCount = Len(newDiscussions)
C10_Witness ==
  /\ BatchDone
  /\ Len(results) >= 2
  /\ ~results[1].success
  /\ results[2].success

\* C11: a schema validation failure is fatal before any write: the failing
\* validation step ends the run with success false, and a run that ended so
\* has created no TargetRecord, attempted no write, updated no status,
\* created no WorkItem and sent no notification.
NothingDoneInRun ==
  /\ createdRun = {}
  /\ results = <<>>
  /\ flippedRun = {}
  /\ queriedRun = {}
  /\ \A c \in Cats : itemsRun[c] = 0
  /\ mails = {}
C11_SchemaFatal ==
  /\ [][(pc = "validate" /\ faults' # faults)
          => /\ pc' = "done"
             /\ ~result'.success
             /\ result'.error = "schema"
             /\ UNCHANGED storeVars]_vars
  /\ []((pc \in {"validate", "done"} /\ (pc = "done" => result.error = "schema"))
          => NothingDoneInRun)
C11_Witness ==
  /\ RunEnded
  /\ result.error = "schema"
  /\ runs = 2
  /\ \E n \in Notes : noteStatus[n] = Unprocessed /\ \E t \in live : NoteOf(t) = n /\ target[t] = 0

\* C12: exit status: a process whose sync() ran ends with a non-zero exit
\* status if and only if its schema validation failed; every other failure
\* leaves the exit status zero.
C12_ExitStatus ==
  (pc = "idle" /\ prevResult # NoResult)
    => (exitCode # 0 <=> prevResult.error = "schema")

\* C13 as stated: every run of sync(), whatever fails, returns a result that
\* carries the processed, written and error counts.
C13_SummaryWithCounts ==
  RunEnded => (result.processed >= 0 /\ result.written >= 0 /\ result.errors >= 0)

\* C13 amended: every return of sync() carries the success flag; with success
\* true it carries the counts (processed = Threads read, written = successful
\* entries and errors = failed entries of the batch result, one entry per new
\* Thread); with success false (an error thrown by the schema validation, a
\* statistics query, the notes query or the existing-id query) it carries the
\* error message and no counts, also when records were already written.
FatalErrors == {"schema", "stats", "notes", "existing"}
C13_SummaryOrError ==
  RunEnded
    => IF result.success
         THEN /\ exitKind \in EarlyExits \cup {"full"}
              /\ result.error = "none"
              /\ result.processed
                   = (IF exitKind \in {"noPending", "noValid"} THEN 0 ELSE Len(allDiscussions))
              /\ result.written = successCount
              /\ result.errors = errorCount
              /\ result.written + result.errors = Len(newDiscussions)
              /\ Len(results) = Len(newDiscussions)
         ELSE /\ exitKind = "fatal"
              /\ result.error \in FatalErrors
              /\ result.processed = -1 /\ result.written = -1 /\ result.errors = -1
C13_Witness ==
  /\ RunEnded
  /\ ~result.success
  /\ createdRun # {}
  /\ successCount > 0

\* C14: a notification failure is never fatal: a send that fails only sets
\* emailSent to false; the workflow still returns success true, the WorkItem
\* created before the send stays, and sync() goes on.
C14_MailNeverFatal ==
  [][(pc \in {"wfWarn", "wfMail"})
       => /\ wfResult'[wf].success
          /\ wfResult'[wf].emailSent <=> faults' = faults
          /\ wfResult'[wf].actionTaskCreated <=> pc = "wfMail"
          /\ wfResult'[wf].backlog = wfNotes
          /\ items' = items
          /\ pc' \in {"wfBacklog", "stats2"}]_vars
C14_Witness ==
  /\ RunEnded
  /\ result.success
  /\ \E c \in Cats :
       /\ wfResult[c].success
       /\ wfResult[c].actionTaskCreated
       /\ ~wfResult[c].emailSent
       /\ itemsRun[c] = 1
       /\ OpenItems(c) # {}

TextTypeOK ==
  /\ textPc \in {"off", "fetched", "thread", "dropped", "rendered"}
  /\ Len(discussion.comments) \in {0, Len(fetched)}
  /\ (textPc = "rendered") = (children # <<>>)

\* a Thread has been returned for the fetched group
IsThread == textPc \in {"thread", "rendered"}

\* C15: the members of every Thread are the fetched comments in non-decreasing
\* created_time order, and members with equal created_time keep their fetch order.
C15_MemberOrder ==
  IsThread =>
    LET m == discussion.comments
    IN /\ Len(m) = Len(fetched)
       /\ {m[i] : i \in 1..Len(m)} = {fetched[i] : i \in 1..Len(fetched)}
       /\ \A i, j \in 1..Len(m) :
            i < j => \/ m[i].created_time < m[j].created_time
                     \/ /\ m[i].created_time = m[j].created_time
                        /\ m[i].id < m[j].id

\* a Thread of two members with equal created_time
C15_Witness ==
  /\ IsThread
  /\ Len(discussion.comments) = 2
  /\ discussion.comments[1].created_time = discussion.comments[2].created_time

\* filterValidDiscussions has decided about the fetched group
Filtered == textPc \in {"thread", "dropped", "rendered"}
Members == {fetched[i] : i \in 1..Len(fetched)}

\* the trimmed text starts with Q, A or the arrow and a colon of either width
HasColonPrefix(c) ==
  LET t == Trim(Join(c.rich_text))
  IN /\ Len(t) >= 2
     /\ t[1] \in {"Q", "A", "arrow"}
     /\ t[2] \in {":", "fwcolon"}

\* C16 as stated: a group becomes a Thread if and only if the trimmed text of at
\* least one member starts with Q, A or the arrow, the colon being optional.
C16_ValidIffLetter ==
  Filtered =>
    (discussion.valid <=>
       \E c \in Members : \E l \in {"Q", "A", "arrow"} :
          StartsWith(Trim(Join(c.rich_text)), <<l>>))

\* C16: a group becomes a Thread if and only if the trimmed text of at least one
\* member starts with Q, A or the arrow immediately followed by a half-width or
\* full-width colon.
C16_ValidIffColonPrefix ==
  Filtered => (discussion.valid <=> \E c \in Members : HasColonPrefix(c))

\* a group dropped although a member starts with a letter (without colon)
C16_Witness ==
  /\ textPc = "dropped"
  /\ \E c \in Members : \E l \in {"Q", "A", "arrow"} :
       StartsWith(Trim(Join(c.rich_text)), <<l>>)

\* the orders in which the comments of the fetched group could have been fetched
Reorderings ==
  LET n == Len(fetched)
  IN {[i \in 1..n |-> fetched[p[i]]] :
        p \in {q \in [1..n -> 1..n] : \A i, j \in 1..n : q[i] = q[j] => i = j}}

\* the text of c without its letter, its colon and the blanks around the rest
Stripped(c) ==
  LET t == Trim(Join(c.rich_text))
  IN Trim(SubSeq(t, 3, Len(t)))

\* the prefixed members with the lowest created_time
EarliestPrefixed ==
  {c \in Members : /\ HasColonPrefix(c)
                   /\ \A d \in Members : HasColonPrefix(d) => c.created_time <= d.created_time}

\* C17 as stated: the title is the stripped text of the prefixed member with the
\* lowest created_time, whatever the order in which the comments were fetched.
C17_TitleOrderIndependent ==
  IsThread =>
    /\ \E c \in EarliestPrefixed : discussion.title = Stripped(c)
    /\ \A g \in Reorderings : filterValidDiscussions(g).title = discussion.title

\* C17: the title is the stripped text of the first prefixed member in Thread
\* order (created_time ascending, equal times in fetch order); it is independent
\* of the fetch order when one prefixed member alone has the lowest created_time.
C17_TitleOfFirstInThreadOrder ==
  IsThread =>
    LET m == discussion.comments
        k == CHOOSE i \in 1..Len(m) :
               HasColonPrefix(m[i]) /\ \A j \in 1..(i - 1) : ~HasColonPrefix(m[j])
    IN /\ discussion.title = Stripped(m[k])
       /\ m[k] \in EarliestPrefixed
       /\ \A d \in EarliestPrefixed : m[k].id <= d.id
       /\ Cardinality(EarliestPrefixed) = 1 =>
            \A g \in Reorderings : filterValidDiscussions(g).title = discussion.title

\* a Thread whose title comes from the comment fetched second, the earlier one
C17_Witness ==
  /\ IsThread
  /\ Len(fetched) = 2
  /\ HasColonPrefix(fetched[1]) /\ HasColonPrefix(fetched[2])
  /\ fetched[2].created_time < fetched[1].created_time
  /\ discussion.title = Stripped(fetched[2])
  /\ discussion.title # Stripped(fetched[1])

\* the classes whose list holds the comment c
ClassesOf(c) == {k \in Types : \E i \in 1..Len(grouped[k]) : grouped[k][i] = c}

\* C18: groupCommentsByType puts every comment in exactly one of the classes Q,
\* A, arrow, other, and two comments with the same trimmed full text get the
\* same class.
C18_ClassOfTrimmedText ==
  textPc = "rendered" =>
    \A c \in Members :
      /\ Cardinality(ClassesOf(c)) = 1
      /\ \A r \in RichTexts(Body(c.id)) :
           Trim(Join(r)) = Trim(Join(c.rich_text))
             => CommentType([c EXCEPT !.rich_text = r]) \in ClassesOf(c)

\* C19: the rendered blocks are exactly one section header, one block per Q
\* member, one per A member, one quote block with the source block's text, one
\* block per arrow member and one per other member, and nothing else.
C19_RenderingOrder ==
  textPc = "rendered" =>
    LET nQ == Len(grouped["Q"])
        nA == Len(grouped["A"])
        nR == Len(grouped["arrow"])
        nO == Len(grouped["other"])
    IN /\ Len(children) = 1 + nQ + nA + 1 + nR + nO
       /\ children[1] = ReferenceHeading
       /\ \A i \in 1..nQ : children[1 + i].text[1] = "Q"
       /\ \A i \in 1..nA : children[1 + nQ + i].text[1] = "A"
       /\ children[2 + nQ + nA] = Block("quote", discussion.comments[1].blockInfo)
       /\ \A i \in 1..nR : children[2 + nQ + nA + i].text[1] = "arrow"
       /\ \A i \in 1..nO : children[2 + nQ + nA + nR + i].text[1] = "byline"

\* C20: every member classified Q, A or arrow is rendered as its letter, a
\* full-width colon, and its text without the letter, without the colon of
\* either width after it and without the blanks that follow.
C20_CanonicalPrefix ==
  textPc = "rendered" =>
    \A k \in {"Q", "A", "arrow"} : \A i \in 1..Len(grouped[k]) :
      LET t == Trim(Join(grouped[k][i].rich_text))
          r == Tail(t)
          content == TrimStart(IF r # <<>> /\ Head(r) \in {":", "fwcolon"}
                                 THEN Tail(r) ELSE r)
      IN \E j \in 1..Len(children) :
           children[j] = Block("paragraph", <<k, "fwcolon">> \o content)

WalkTypeOK ==
  /\ walkPc \in {"off", "start", "blocks", "comments", "returned"}
  /\ \A i \in 1..Len(allBlocks) : allBlocks[i] \in 1..doc.n
  /\ Len(validDiscussions) <= Len(blocksWithComments)
  /\ Len(blocksWithComments) <= Len(allBlocks)

\* getAllBlocksRecursively(page) has returned
Walked == walkPc \in {"blocks", "comments", "returned"}

\* the number of children-list requests a complete walk makes for node n: none
\* for a block without children, else one per page
RequestsFor(n) ==
  IF n # Root /\ ~HasChildren(n) THEN 0
  ELSE IF ChildrenOf(n) = <<>> THEN 1
  ELSE (Len(ChildrenOf(n)) + doc.pageLen - 1) \div doc.pageLen

\* the nodes whose children list fails when it is asked for
ListingFails == {n \in doc.failList : doc.failPage <= RequestsFor(n)}

\* C21: when no children-list request fails, getAllBlocksRecursively returns
\* every block of the document exactly once, whatever its depth and however
\* many pages its parent's children list takes.
C21_WalkComplete ==
  (Walked /\ ListingFails = {}) =>
    /\ Len(allBlocks) = doc.n
    /\ Range(allBlocks) = 1..doc.n

\* a complete walk of a document with a nested block and a children list of
\* more than one page
C21_Witness ==
  /\ Walked /\ ListingFails = {}
  /\ \E b \in 1..doc.n : doc.parent[b] # Root
  /\ \E x \in 0..doc.n : Len(ChildrenOf(x)) > doc.pageLen
  /\ Len(allBlocks) = doc.n

\* the nodes above block b, the page included
RECURSIVE Ancestors(_)
Ancestors(b) == IF b = Root THEN {} ELSE {doc.parent[b]} \cup Ancestors(doc.parent[b])

\* the blocks below node n
Subtree(n) == {b \in 1..doc.n : n \in Ancestors(b)}

ReadableCommented ==
  SelectSeq(allBlocks, LAMBDA b : b \in doc.commented /\ b \notin doc.failComments)

\* C23: a block whose comments.list fails contributes no comment, the comments
\* of every other block the walk returned are collected and become Threads, and
\* a document without blocks gives no Thread.
C23_CommentFetchTolerant ==
  /\ walkPc \in {"comments", "returned"} =>
       [i \in 1..Len(blocksWithComments) |-> blocksWithComments[i].block] = ReadableCommented
  /\ walkPc = "returned" =>
       /\ [i \in 1..Len(validDiscussions) |-> validDiscussions[i].discussionId] = ReadableCommented
       /\ doc.n = 0 => validDiscussions = <<>>

\* the comments of one block could not be read, those of another became a Thread
C23_Witness ==
  /\ walkPc = "returned"
  /\ \E b \in Range(allBlocks) \cap doc.commented \cap doc.failComments :
       /\ \A i \in 1..Len(validDiscussions) : validDiscussions[i].discussionId # b
       /\ \E i \in 1..Len(validDiscussions) : validDiscussions[i].discussionId \in doc.commented

\* C24: the write attempts are made one at a time in the order of the threads
\* left after dedup, and every attempt but the first comes right after a delay
\* step, whether the attempt before it succeeded or failed.
C24_WriteOrdering ==
  /\ Len(results) <= Len(newDiscussions)
  /\ \A i \in 1..Len(results) : results[i].discussionId = newDiscussions[i]
  /\ pc = "write" => /\ idx = Len(results) + 1
                     /\ idx > 1 => lastEvt = "delay"
  /\ pc = "delay" => /\ idx = Len(results)
                     /\ idx < Len(newDiscussions)
                     /\ lastEvt = "write"

\* the second attempt is about to be made, after the delay that followed a failed first one
C24_Witness ==
  /\ pc = "write"
  /\ idx = 2
  /\ lastEvt = "delay"
  /\ ~results[1].success

\* C25: the body details the first min(n, 10) entries of the backlog and no
\* other, has one line counting the n - 10 others when n > 10 and none
\* otherwise, and never has more than 100 blocks.
C25_BoundedBody ==
  taskPc = "built" =>
    LET shown == IF backlog.n < PreviewSize THEN backlog.n ELSE PreviewSize
        restLines == {i \in 1..Len(taskContent) : taskContent[i].rest > 0}
    IN /\ {taskContent[i].entry : i \in 1..Len(taskContent)} \ {0} = 1..shown
       /\ Cardinality(restLines) = (IF backlog.n > PreviewSize THEN 1 ELSE 0)
       /\ \A i \in restLines : taskContent[i].rest = backlog.n - PreviewSize
       /\ Len(taskContent) <= BlockCeiling

\* a body built for a backlog of more than ten entries
C25_Witness ==
  /\ taskPc = "built"
  /\ backlog.n > PreviewSize
  /\ \E i \in 1..Len(taskContent) : taskContent[i].rest = backlog.n - PreviewSize

\* C26: a step of the pipeline (any step that is not a user's action) leaves
\* every existing WorkItem as it is; it can only add one at the end.
C26_PipelineKeepsItems ==
  [][human' = human =>
       /\ Len(items') >= Len(items)
       /\ \A i \in 1..Len(items) : items'[i] = items[i]]_vars

\* a run has created a WorkItem while an older one was still unresolved
C26_Witness ==
  /\ Len(items) >= 2
  /\ items[1].status # Done
  /\ \E c \in Cats : itemsRun[c] > 0

\* C27: a run that began after a user marked a category's WorkItem Done, and
\* met no failure, leaves an unresolved WorkItem of that category behind
\* whenever the category's backlog is not empty.
C27_NextRunCreatesTask ==
  \A c \in Cats :
    (/\ RunEnded
     /\ quietRuns >= 1
     /\ faults = 0
     /\ Backlog(c) > 0
     /\ \E i \in 1..Len(items) : items[i].cat = c /\ items[i].status = Done)
      => OpenItems(c) # {}

\* updateProcessedNotesStatus has just finished (idx is where its loop stopped)
StatusUpdateFinished == pc = "wfBacklog" /\ wf = RefCat

\* C30: when updateProcessedNotesStatus finishes, every pending note with a
\* successful write result of this run is Processed, also when the update of
\* another note failed (the note the loop stopped at is left aside).
C30_StatusUpdateComplete ==
  StatusUpdateFinished =>
    \A k \in 1..Len(pendingNotes) :
      (k # idx /\ SourceNoteSuccessCount(results, pendingNotes[k]) > 0)
        => noteStatus[pendingNotes[k]] = Processed

WorkflowPositions == {"wfBacklog", "wfGuard", "wfWarn", "wfCreate", "wfMail"}

\* C28: the workflows of a run are entered only from the end of
\* updateProcessedNotesStatus, with a write result for every new discussion;
\* while they run no write result, record or note status changes; WorkItems
\* are created there only; and the backlog the reference guard works on is
\* the set of notes still Unprocessed after the status updates.
C28_GuardAfterBatch ==
  [][/\ (pc \notin WorkflowPositions /\ pc' \in WorkflowPositions) =>
          /\ pc = "status"
          /\ pc' = "wfBacklog"
          /\ Len(results) = Len(newDiscussions)
          /\ idx = Len(pendingNotes) \/ faults' # faults
     /\ pc \in WorkflowPositions =>
          /\ results' = results
          /\ target' = target
          /\ noteStatus' = noteStatus
     /\ (items' # items /\ human' = human) => pc = "wfCreate"
     /\ queriedRun' \ queriedRun # {} => pc = "wfGuard"
     /\ (pc = "wfBacklog" /\ pc' = "wfGuard" /\ wf = RefCat) =>
          /\ wfNotes' = Cardinality(UnexecutedNotes)
          /\ flippedRun \cap UnexecutedNotes = {}
     /\ (pc \in {"wfGuard", "wfCreate"} /\ wf = RefCat) =>
          wfNotes = Cardinality(UnexecutedNotes)]_vars

\* the reference guard is about to query after a batch of at least two write
\* attempts: one note was set to Processed, another is still Unprocessed
C28_Witness ==
  /\ pc = "wfGuard"
  /\ wf = RefCat
  /\ Len(results) >= 2
  /\ flippedRun # {}
  /\ wfNotes = 1
  /\ UnexecutedNotes # {}

\* C31: as long as no user has acted, no note is Processed while a valid
\* thread of it, one the run tried to write, has no record in the target
\* database.
C31_NoThreadLost ==
  human = 0 =>
    \A i \in 1..Len(results) :
      (results[i].discussionId \in live /\ noteStatus[results[i].sourceNoteId] = Processed)
        => target[results[i].discussionId] > 0

\* C32: a call of writeDiscussion that reports success false leaves the number
\* of records with the thread's DiscussionID as it was, and one that reports
\* success true adds exactly one.
C32_ResultMatchesStore ==
  [][pc = "write" =>
       LET r == results'[Len(results')]
           t == r.discussionId
       IN /\ t = newDiscussions[idx]
          /\ ~r.success => target'[t] = target[t]
          /\ r.success => target'[t] = target[t] + 1]_vars

\* C33: the ids a run dedups against are the DiscussionIDs of all records in
\* the target database, so the threads it keeps are exactly those without a
\* record, however many records the database holds.
C33_ExistingKeysComplete ==
  [][(pc = "dedup" /\ faults' = faults) =>
       newDiscussions' = FilterNew(allDiscussions, {t \in Threads : target[t] > 0})]_vars

\* C34: every comment of a rendered thread that filterValidDiscussions counts
\* as prefixed is put by groupCommentsByType into the group of the letter of
\* its prefix, never into "other".
C34_PrefixAgreement ==
  textPc = "rendered" =>
    \A i \in 1..Len(discussion.comments) :
      LET c == discussion.comments[i]
      IN HasValidPrefix(c) =>
           LET letter == ActualPrefix(extractCommentText(c))[1]
           IN /\ letter # "other"
              /\ \E j \in 1..Len(grouped[letter]) : grouped[letter][j] = c

\* C35: every WorkItem whose status is not Done is what the unresolved-task
\* query of its own category returns, and is not what the query of the other
\* category returns.
C35_QueryCoversCreated ==
  \A i \in 1..Len(items) :
    items[i].status # Done =>
      /\ FindUnfinishedTask(items[i].cat) = i
      /\ \A c \in Cats \ {items[i].cat} : FindUnfinishedTask(c) # i

WriteAttempts(t) == Cardinality({i \in 1..Len(results) : results[i].discussionId = t})

\* sync() has returned, with at most one write attempt per thread left after
\* dedup and none for any other thread
EndedWithinBound ==
  /\ pc = "done"
  /\ exitKind \in EarlyExits \cup {"full", "fatal"}
  /\ \A t \in Threads :
       WriteAttempts(t) <= (IF t \in Range(newDiscussions) THEN 1 ELSE 0)

\* C37: every run of sync() that has started reaches its return (a result or
\* the fatal result) and has then attempted each thread left after dedup at
\* most once.
C37_Termination == (pc = "validate") ~> EndedWithinBound

\* a run has returned its full result after three write attempts, one failed
C37_Witness ==
  /\ pc = "done"
  /\ exitKind = "full"
  /\ Len(results) = 3
  /\ \E i \in 1..3 : ~results[i].success
  /\ \A t \in Threads : WriteAttempts(t) = 1

====
